---- MODULE Spec2Model ----
(***************************************************************************)
(* A model of csolver.py: main() runs solve_table(), which encodes the     *)
(* synthesis of a reversible circuit for a truth table as a Boolean        *)
(* formula, asks the solver for an assignment and writes its true c/n      *)
(* atoms to the result file, and then draw_circ(), which decodes that file *)
(* into a grid, labels the lines and counts the gates.                     *)
(*                                                                         *)
(* Python strings are modelled as sequences of one-character strings, so   *)
(* that str(), split('_'), int(), zfill and the lexicographic sort are     *)
(* computed as the code computes them.  Lists are indexed from 0 in the    *)
(* code; line, row and column indices keep their 0-based values here.      *)
(***************************************************************************)
EXTENDS Integers, Sequences, FiniteSets, TLC

\* Bounds of the model: the requested gate count, the number of rows and
\* the number of output columns of the truth table.
MaxGates == 3
MaxRows == 3
MaxOut == 2

VARIABLES
    pc,               \* position of the program
    argc,             \* len(sys.argv)
    isfile,           \* os.path.isfile(filename)
    is_csv,           \* filename.endswith('.csv')
    csv,              \* columns 1.. of the csv file: a sequence of rows
    num_gates,        \* int(sys.argv[2])
    truth_table,      \* solve_table: the table read from the file
    num_rows,
    num_input_bits,
    num_output_bits,
    s,                \* solve_table: the assertions added to the Solver
    model,            \* solve_table: s.model(), atom -> BOOLEAN
    ret,              \* what solve_table returned to main
    out_file,         \* the file named by sys.argv[3]
    oracle_calls,     \* number of s.check() calls made
    draw_calls,       \* number of draw_circ calls made
    error,            \* the uncaught exception that ended the run, or "none"
    data,             \* draw_circ: the sorted lines of the result file
    n,                \* draw_circ: the grid dimension
    circ,             \* draw_circ: the grid, [row][col]
    gate_dict,        \* draw_circ: the histogram, in insertion order
    stdout            \* the messages printed so far

vars == <<pc, argc, isfile, is_csv, csv, num_gates, truth_table, num_rows,
          num_input_bits, num_output_bits, s, model, ret, out_file,
          oracle_calls, draw_calls, error, data, n, circ, gate_dict, stdout>>

\* symbols used for drawing the circuit
CONTROL_DOT == "o"
NOT_GATE == "X"
PIPE == "|"

-----------------------------------------------------------------------------
\* Python built-ins used by the program

Digit == <<"0", "1", "2", "3", "4", "5", "6", "7", "8", "9">>

\* str(k) for k >= 0
RECURSIVE Str(_)
Str(k) == IF k < 10 THEN <<Digit[k + 1]>>
          ELSE Str(k \div 10) \o <<Digit[(k % 10) + 1]>>

DigitVal(ch) == (CHOOSE d \in 1..10 : Digit[d] = ch) - 1

\* int(x) for a string of decimal digits
RECURSIVE ParseInt(_)
ParseInt(x) == IF Len(x) = 1 THEN DigitVal(x[1])
               ELSE 10 * ParseInt(SubSeq(x, 1, Len(x) - 1)) + DigitVal(x[Len(x)])

\* x.split('_')
RECURSIVE Split(_)
Split(x) ==
    IF \A k \in DOMAIN x : x[k] # "_" THEN <<x>>
    ELSE LET p == CHOOSE k \in DOMAIN x :
                      x[k] = "_" /\ \A m \in 1..(k - 1) : x[m] # "_"
         IN <<SubSeq(x, 1, p - 1)>> \o Split(SubSeq(x, p + 1, Len(x)))

\* bin(k)[2:]
RECURSIVE Bin(_)
Bin(k) == IF k < 2 THEN <<Digit[k + 1]>>
          ELSE Bin(k \div 2) \o <<Digit[(k % 2) + 1]>>

\* x.zfill(w)
RECURSIVE ZFill(_, _)
ZFill(x, w) == IF Len(x) >= w THEN x ELSE ZFill(<<"0">> \o x, w)

\* math.ceil(math.log2(k)) for k >= 1
RECURSIVE CeilLog2From(_, _, _)
CeilLog2From(k, e, p) == IF p >= k THEN e ELSE CeilLog2From(k, e + 1, 2 * p)
CeilLog2(k) == CeilLog2From(k, 0, 1)

\* "ch" in x
Contains(x, ch) == \E k \in DOMAIN x : x[k] = ch

\* ord() of the characters that occur in atom names
Ord(ch) == CASE ch = "_" -> 95
             [] ch = "c" -> 99
             [] ch = "n" -> 110
             [] ch = "v" -> 118
             [] OTHER -> 48 + DigitVal(ch)

\* x < y for Python strings
RECURSIVE StrLess(_, _)
StrLess(x, y) ==
    IF Len(y) = 0 THEN FALSE
    ELSE IF Len(x) = 0 THEN TRUE
    ELSE IF Ord(x[1]) # Ord(y[1]) THEN Ord(x[1]) < Ord(y[1])
    ELSE StrLess(Tail(x), Tail(y))

\* sorted(S) for a set of distinct strings
RECURSIVE SortedLines(_)
SortedLines(S) ==
    IF S = {} THEN <<>>
    ELSE LET lo == CHOOSE x \in S : \A y \in S \ {x} : StrLess(x, y)
         IN <<lo>> \o SortedLines(S \ {lo})

\* lst[k] with Python's negative indices; -1 stands for IndexError
PyIndex(k, len) == IF 0 <= k /\ k < len THEN k
                   ELSE IF -len <= k /\ k < 0 THEN k + len
                   ELSE -1

Xor(a, b) == a # b

-----------------------------------------------------------------------------
\* The atoms c[i][j], v[i][t], n[i] and their names

Atom(f, i, j) == [f |-> f, i |-> i, j |-> j]

CAtoms == {Atom("c", i, j) : i \in 0..(num_gates - 1), j \in 0..(num_gates - 1)}
VAtoms == {Atom("v", i, t) : i \in 0..(num_gates - 1), t \in 0..(num_rows - 1)}
NAtoms == {Atom("n", i, 0) : i \in 0..(num_gates - 1)}
AllAtoms == CAtoms \cup VAtoms \cup NAtoms

\* "c_"+str(i)+"_"+str(j), "v_"+str(i)+"_"+str(j), "n_"+str(i)
Name(a) == IF a.f = "n" THEN <<"n", "_">> \o Str(a.i)
           ELSE <<a.f, "_">> \o Str(a.i) \o <<"_">> \o Str(a.j)

-----------------------------------------------------------------------------
\* The assertions solve_table adds to the Solver.  kind "cfalse" is
\* c[i][j] == False; kind "pin" is v[i][j] == val; kind "evolve" is
\* v[i][j] == clause, where clause is built by EvolveClause, xin says whether
\* the input bit is xor-ed in and val is that bit.

Con(kind, i, j, val, xin) == [kind |-> kind, i |-> i, j |-> j, val |-> val, xin |-> xin]

\* AcyclicConstraints with the inner loop started one too late: range(i + 1, num_gates)
AcyclicConstraintsOffByOne ==
    {Con("cfalse", p[1], p[2], FALSE, FALSE) :
        p \in {q \in (0..(num_gates - 1)) \X (0..(num_gates - 1)) : q[2] > q[1]}}

\* gates cannot be controlled on gates that are above them, or themselves
AcyclicConstraints ==
    {Con("cfalse", p[1], p[2], FALSE, FALSE) :
        p \in {q \in (0..(num_gates - 1)) \X (0..(num_gates - 1)) : q[2] >= q[1]}}

\* range(num_gates - num_output_bits, num_gates)
OutputGates == (num_gates - num_output_bits)..(num_gates - 1)

\* v[gate] raises IndexError when gate is below -len(v)
PinRaises == \E gate \in OutputGates : PyIndex(gate, num_gates) = -1

\* PinConstraints with the test of table_out inverted
PinConstraintsInverted ==
    {Con("pin", PyIndex(p[1], num_gates), p[2],
         truth_table[p[2] + 1][p[1] - (num_gates - num_output_bits) + 1] = 0, FALSE) :
        p \in OutputGates \X (0..(num_rows - 1))}

\* the output of the last num_output_bits gates must match the table
PinConstraints ==
    {Con("pin", PyIndex(p[1], num_gates), p[2],
         truth_table[p[2] + 1][p[1] - (num_gates - num_output_bits) + 1] # 0, FALSE) :
        p \in OutputGates \X (0..(num_rows - 1))}

\* bin(inp)[2:].zfill(num_input_bits)[i] == '1'
InputVal(i, inp) == ZFill(Bin(inp), num_input_bits)[i + 1] = "1"

\* EvolveConstraints without the xor of the input value
EvolveConstraintsNoInput ==
    {Con("evolve", p[1], p[2], FALSE, FALSE) :
        p \in (0..(num_gates - 1)) \X (0..(num_rows - 1))}

\* one assertion v[i][inp] == clause per gate and input
EvolveConstraints ==
    {Con("evolve", p[1], p[2],
         IF p[1] < num_input_bits THEN InputVal(p[1], p[2]) ELSE FALSE,
         p[1] < num_input_bits) :
        p \in (0..(num_gates - 1)) \X (0..(num_rows - 1))}

LineWidth == num_gates + 1 + num_rows
NumAtoms == num_gates * LineWidth

\* An assignment is the sequence of the truth values of the atoms, taken in
\* the order c[i][0..], n[i], v[i][0..], line by line; Pos(a) is the place
\* of atom a in it.
Pos(a) == a.i * LineWidth + 1 +
          (CASE a.f = "c" -> a.j
             [] a.f = "n" -> num_gates
             [] a.f = "v" -> num_gates + 1 + a.j)

\* The value of the clause of gate con.i on input con.j under assignment A:
\*   n[i] xor ((v[i-1][t] or not c[i][i-1]) and ... and (v[0][t] or not c[i][0])),
\* xor-ed with the input bit on the input lines
EvolveClause(con, A) ==
    LET i == con.i
        inp == con.j
        temp == \A count \in 1..i :
                    A[Pos(Atom("v", i - count, inp))] \/ ~A[Pos(Atom("c", i, i - count))]
        clause == Xor(A[Pos(Atom("n", i, 0))], temp)
    IN IF con.xin THEN Xor(clause, con.val) ELSE clause

\* whether assignment A satisfies the assertion
Holds(con, A) ==
    CASE con.kind = "cfalse" -> A[Pos(Atom("c", con.i, con.j))] = FALSE
      [] con.kind = "pin" -> A[Pos(Atom("v", con.i, con.j))] = con.val
      [] con.kind = "evolve" -> A[Pos(Atom("v", con.i, con.j))] = EvolveClause(con, A)

-----------------------------------------------------------------------------
\* The solver: s.check() and s.model().  The answer is sat exactly when some
\* assignment of all atoms satisfies every assertion, and the model is any
\* such assignment.  The assignments are enumerated atom by atom, an
\* assertion being tested as soon as every atom it mentions has a value.

AtomsOf(con) ==
    CASE con.kind = "cfalse" -> {Atom("c", con.i, con.j)}
      [] con.kind = "pin" -> {Atom("v", con.i, con.j)}
      [] con.kind = "evolve" ->
            {Atom("v", con.i, con.j), Atom("n", con.i, 0)}
            \cup {Atom("v", con.i - count, con.j) : count \in 1..con.i}
            \cup {Atom("c", con.i, con.i - count) : count \in 1..con.i}

\* the position of the last atom of the assertion
Due(con) == LET P == {Pos(a) : a \in AtomsOf(con)}
            IN CHOOSE k \in P : \A m \in P : m <= k

\* A is the sequence of the values given to the first Len(A) atoms
RECURSIVE SatFrom(_, _)
SatFrom(A, due) ==
    IF Len(A) = NumAtoms THEN {A}
    ELSE LET ext(b) == Append(A, b)
             ok(b) == \A con \in due[Len(A) + 1] : Holds(con, ext(b))
         IN (IF ok(FALSE) THEN SatFrom(ext(FALSE), due) ELSE {})
            \cup (IF ok(TRUE) THEN SatFrom(ext(TRUE), due) ELSE {})

\* due[k]: the assertions of S whose last atom is at position k
RECURSIVE NoneDue(_)
NoneDue(k) == IF k = 0 THEN <<>> ELSE Append(NoneDue(k - 1), {})

RECURSIVE DueAt(_, _)
DueAt(S, due) ==
    IF S = {} THEN due
    ELSE LET con == CHOOSE x \in S : TRUE
         IN DueAt(S \ {con}, [due EXCEPT ![Due(con)] = @ \cup {con}])

\* the assignments that satisfy every assertion of S, each as atom -> BOOLEAN
Models(S) ==
    {[a \in AllAtoms |-> A[Pos(a)]] : A \in SatFrom(<<>>, DueAt(S, NoneDue(NumAtoms)))}

\* WriteFilter without the test for "v"
WriteFilterAll(m) == {Name(d) : d \in {a \in DOMAIN m : m[a]}}

\* the lines solve_table writes for a model:
\*   if str(model[d]) == "True" and not "v" in str(d)
WriteFilter(m) == {Name(d) : d \in {a \in DOMAIN m : m[a] /\ ~Contains(Name(a), "v")}}

-----------------------------------------------------------------------------
\* The initial state: the command line and the csv file

\* the tables a csv file can hold: at least one row and one output column
Tables == UNION {[1..p[1] -> [1..p[2] -> {0, 1}]] : p \in (1..MaxRows) \X (1..MaxOut)}

NoFile == [opened |-> FALSE, atoms |-> {}, grid |-> <<>>, counts |-> <<>>]

Init ==
    /\ pc = "main"
    /\ argc \in {3, 4}
    /\ isfile \in BOOLEAN
    /\ is_csv \in BOOLEAN
    /\ csv \in Tables
    /\ num_gates \in 0..MaxGates
    /\ truth_table = <<>>
    /\ num_rows = 0
    /\ num_input_bits = 0
    /\ num_output_bits = 0
    /\ s = {}
    /\ model = <<>>
    /\ ret = <<>>
    /\ out_file = NoFile
    /\ oracle_calls = 0
    /\ draw_calls = 0
    /\ error = "none"
    /\ data = <<>>
    /\ n = 0
    /\ circ = <<>>
    /\ gate_dict = <<>>
    /\ stdout = <<>>

solveVars == <<truth_table, num_rows, num_input_bits, num_output_bits, s, model, ret>>
drawVars == <<data, n, circ, gate_dict>>
inputVars == <<argc, isfile, is_csv, csv, num_gates>>

-----------------------------------------------------------------------------
\* main()

MainBadArgc ==
    /\ pc = "main"
    /\ argc # 4
    /\ stdout' = Append(stdout, "Please input the correct number of arguments.")
    /\ pc' = "done"
    /\ UNCHANGED <<inputVars, solveVars, drawVars, out_file, oracle_calls, draw_calls, error>>

MainNoFile ==
    /\ pc = "main"
    /\ argc = 4
    /\ ~isfile
    /\ stdout' = Append(stdout, "That file does not exist.")
    /\ pc' = "done"
    /\ UNCHANGED <<inputVars, solveVars, drawVars, out_file, oracle_calls, draw_calls, error>>

MainNotCsv ==
    /\ pc = "main"
    /\ argc = 4
    /\ isfile
    /\ ~is_csv
    /\ stdout' = Append(stdout, "Please input a .csv file.")
    /\ pc' = "done"
    /\ UNCHANGED <<inputVars, solveVars, drawVars, out_file, oracle_calls, draw_calls, error>>

MainCallSolve ==
    /\ pc = "main"
    /\ argc = 4
    /\ isfile
    /\ is_csv
    /\ pc' = "solve_table"
    /\ UNCHANGED <<inputVars, solveVars, drawVars, out_file, oracle_calls, draw_calls,
                   error, stdout>>

\* ShouldDraw without the test of ret
ShouldDrawAlways(r) == TRUE

\* whether main goes on to draw_circ: if (ret)
ShouldDraw(r) == r[1]

MainAfterSolve ==
    /\ pc = "returned"
    /\ IF ShouldDraw(ret)
       THEN /\ stdout' = Append(stdout, "Drawing circuit to file...")
            /\ draw_calls' = draw_calls + 1
            /\ pc' = "draw_circ"
       ELSE /\ pc' = "done"
            /\ UNCHANGED <<stdout, draw_calls>>
    /\ UNCHANGED <<inputVars, solveVars, drawVars, out_file, oracle_calls, error>>

-----------------------------------------------------------------------------
\* solve_table(filename, num_gates, out_file)

\* reads the table and derives the numbers of rows, output bits and input bits
SolveSetup ==
    /\ pc = "solve_table"
    /\ truth_table' = csv
    /\ num_rows' = Len(csv)
    /\ num_output_bits' = Len(csv[1])
    /\ num_input_bits' = CeilLog2(Len(csv))
    /\ stdout' = stdout \o <<"Reading csv File...", "Setting up arrays...">>
    /\ pc' = "add_acyclic"
    /\ UNCHANGED <<inputVars, s, model, ret, drawVars, out_file, oracle_calls,
                   draw_calls, error>>

AddAcyclic ==
    /\ pc = "add_acyclic"
    /\ s' = s \cup AcyclicConstraints
    /\ stdout' = Append(stdout, "Adding constraints...")
    /\ pc' = "add_pins"
    /\ UNCHANGED <<inputVars, truth_table, num_rows, num_input_bits, num_output_bits,
                   model, ret, drawVars, out_file, oracle_calls, draw_calls, error>>

AddOutputPins ==
    /\ pc = "add_pins"
    /\ IF PinRaises
       THEN /\ error' = "IndexError"
            /\ pc' = "crashed"
            /\ s' = s
       ELSE /\ s' = s \cup PinConstraints
            /\ pc' = "add_evolve"
            /\ error' = error
    /\ UNCHANGED <<inputVars, truth_table, num_rows, num_input_bits, num_output_bits,
                   model, ret, drawVars, out_file, oracle_calls, draw_calls, stdout>>

AddGateEvolution ==
    /\ pc = "add_evolve"
    /\ s' = s \cup EvolveConstraints
    /\ stdout' = Append(stdout, "Checking satisfiability...")
    /\ pc' = "check"
    /\ UNCHANGED <<inputVars, truth_table, num_rows, num_input_bits, num_output_bits,
                   model, ret, drawVars, out_file, oracle_calls, draw_calls, error>>

\* what solve_table does to out_file when the system isn't satisfiable
UnsatFile(f) == f

\* s.check(): when sat, the model's true c and n atoms are written to
\* out_file; when not, (False, 0, 0) is returned
CheckSatisfiability ==
    /\ pc = "check"
    /\ LET ms == Models(s)
       IN IF ms # {}
          THEN /\ \E m \in ms :
                     /\ model' = m
                     /\ out_file' = [NoFile EXCEPT !.opened = TRUE,
                                                   !.atoms = WriteFilter(m)]
               /\ ret' = <<TRUE, num_input_bits, num_output_bits>>
               /\ stdout' = Append(stdout, "Model is satisfiable!")
          ELSE /\ ret' = <<FALSE, 0, 0>>
               /\ out_file' = UnsatFile(out_file)
               /\ model' = model
               /\ stdout' = Append(stdout, "Model is not satisfiable")
    /\ oracle_calls' = oracle_calls + 1
    /\ pc' = "returned"
    /\ UNCHANGED <<inputVars, truth_table, num_rows, num_input_bits, num_output_bits,
                   s, drawVars, draw_calls, error>>

-----------------------------------------------------------------------------
\* draw_circ(infile, outfile, num_in, num_out), called with infile = outfile

\* nots = [i for i in data if i[0] == 'n'], cs = [i for i in data if i[0] == 'c']
IsNot(x) == x[1] = "n"
IsC(x) == x[1] = "c"
Nots(d) == SelectSeq(d, IsNot)
Cs(d) == SelectSeq(d, IsC)

\* int(i.split('_')[1]) and int(i.split('_')[2])
First(x) == ParseInt(Split(x)[2])
Second(x) == ParseInt(Split(x)[3])

\* parsed_all = [int(i.split('_')[1]) for i in data]
ParsedAll(d) == [k \in DOMAIN d |-> First(d[k])]

\* max(parsed_all) + 1, for a non-empty list
GridSize(d) ==
    LET P == {ParsedAll(d)[k] : k \in DOMAIN d}
    IN (CHOOSE m \in P : \A x \in P : x <= m) + 1

\* reads and sorts the lines of the file and finds the grid dimension;
\* max() of an empty list raises ValueError
DrawRead ==
    /\ pc = "draw_circ"
    /\ data' = SortedLines(out_file.atoms)
    /\ IF data' = <<>>
       THEN /\ error' = "ValueError"
            /\ pc' = "crashed"
            /\ n' = n
       ELSE /\ n' = GridSize(data')
            /\ pc' = "draw_grid"
            /\ error' = error
    /\ UNCHANGED <<inputVars, solveVars, circ, gate_dict, out_file, oracle_calls,
                   draw_calls, stdout>>

\* checks if there is a control dot anywhere above the given cell
o_above(grid, j, i) == \E y \in 0..(j - 1) : grid[y][i] = CONTROL_DOT

\* PipeRows running down the whole column: range(1, n)
PipeRowsWholeColumn(i, size) == 1..(size - 1)

\* the rows of column i that the pipe pass visits: range(1, i)
PipeRows(i, size) == 1..(i - 1)

\* the matrix after the nots, the diagonal, the control dots and the pipes
Grid(d, size) ==
    LET R == 0..(size - 1)
        blank == [r \in R |-> [k \in R |-> "-"]]
        nots == [r \in R |-> [k \in R |->
                    IF k = 0 /\ \E x \in DOMAIN Nots(d) : First(Nots(d)[x]) = r
                    THEN NOT_GATE ELSE blank[r][k]]]
        diag == [r \in R |-> [k \in R |-> IF r = k THEN NOT_GATE ELSE nots[r][k]]]
        dots == [r \in R |-> [k \in R |->
                    IF \E x \in DOMAIN Cs(d) :
                           First(Cs(d)[x]) = k /\ Second(Cs(d)[x]) = r
                    THEN CONTROL_DOT ELSE diag[r][k]]]
    IN [r \in R |-> [k \in R |->
           IF /\ k \in 1..(size - 1)
              /\ r \in PipeRows(k, size)
              /\ dots[r][k] = "-"
              /\ o_above(dots, r, k)
           THEN PIPE ELSE dots[r][k]]]

\* circ[y][x] raises IndexError when y is not a row of the grid
GridRaises(d, size) ==
    \E x \in DOMAIN Cs(d) : Second(Cs(d)[x]) >= size

DrawGrid ==
    /\ pc = "draw_grid"
    /\ IF GridRaises(data, n)
       THEN /\ error' = "IndexError"
            /\ pc' = "crashed"
            /\ circ' = circ
       ELSE /\ circ' = Grid(data, n)
            /\ pc' = "draw_write"
            /\ error' = error
    /\ UNCHANGED <<inputVars, solveVars, data, n, gate_dict, out_file, oracle_calls,
                   draw_calls, stdout>>

\* if its an input bit or output bit we denote it
Label(i, size, num_in, num_out) ==
    IF i < num_in THEN "|i> "
    ELSE IF i >= size - num_out THEN "|o> "
    ELSE "|a> "

RECURSIVE Cells(_, _, _)
Cells(grid, i, upto) ==
    IF upto < 0 THEN <<>>
    ELSE Cells(grid, i, upto - 1) \o <<"-", grid[i][upto], "-">>

\* one line of the drawing: the label, then the matrix row with spacers
RowLine(grid, i, size, num_in, num_out) ==
    <<Label(i, size, num_in, num_out)>> \o Cells(grid, i, size - 1)

\* open(outfile, "w") empties the file; the matrix is written to it
DrawWrite ==
    /\ pc = "draw_write"
    /\ out_file' = [opened |-> TRUE, atoms |-> {},
                    grid |-> [k \in 1..n |-> RowLine(circ, k - 1, n, ret[2], ret[3])],
                    counts |-> <<>>]
    /\ pc' = "draw_counts"
    /\ UNCHANGED <<inputVars, solveVars, drawVars, oracle_calls, draw_calls, error, stdout>>

\* gate_name = ("C" * num_os) + "NOT"
RECURSIVE GateName(_)
GateName(num_os) == IF num_os = 0 THEN <<"N", "O", "T">>
                    ELSE <<"C">> \o GateName(num_os - 1)

\* the number of control dots in column i
NumOs(grid, i, size) == Cardinality({j \in 0..(size - 1) : grid[j][i] = CONTROL_DOT})

\* gate_dict[name] = gate_dict[name] + k, or gate_dict[name] = k for a new key
AddTo(dict, name, k) ==
    IF \E x \in DOMAIN dict : dict[x][1] = name
    THEN [x \in DOMAIN dict |->
             IF dict[x][1] = name THEN <<name, dict[x][2] + k>> ELSE dict[x]]
    ELSE Append(dict, <<name, k>>)

\* CountedColumns started at column 0: range(0, n)
CountedColumnsFromZero(size) == 0..(size - 1)

\* the columns the histogram counts: range(1, n)
CountedColumns(size) == 1..(size - 1)

\* the dictionary after the columns up to i
RECURSIVE ColumnCounts(_, _, _)
ColumnCounts(grid, i, size) ==
    IF i < 0 THEN <<>>
    ELSE LET before == ColumnCounts(grid, i - 1, size)
         IN IF i \in CountedColumns(size)
            THEN AddTo(before, GateName(NumOs(grid, i, size)), 1)
            ELSE before

\* the dictionary with the not gates of the first column added
GateDict(grid, size, d) ==
    AddTo(ColumnCounts(grid, size - 1, size), GateName(0), Len(Nots(d)))

\* sorted(items, key=count, reverse=True): stable, so equal counts keep
\* their order of insertion
RECURSIVE InsertByCount(_, _)
InsertByCount(sorted, e) ==
    IF sorted = <<>> THEN <<e>>
    ELSE IF Head(sorted)[2] >= e[2] THEN <<Head(sorted)>> \o InsertByCount(Tail(sorted), e)
    ELSE <<e>> \o sorted

RECURSIVE SortByCount(_)
SortByCount(dict) ==
    IF dict = <<>> THEN <<>>
    ELSE InsertByCount(SortByCount(SubSeq(dict, 1, Len(dict) - 1)), dict[Len(dict)])

\* pair[0] + " gates: " + str(pair[1])
CountLine(pair) == pair[1] \o <<" gates: ">> \o Str(pair[2])

\* computes the gate counts and writes them, sorted by occurrences
DrawCounts ==
    /\ pc = "draw_counts"
    /\ gate_dict' = GateDict(circ, n, data)
    /\ out_file' = [out_file EXCEPT !.counts =
                       LET sorted_list == SortByCount(gate_dict')
                       IN [k \in DOMAIN sorted_list |-> CountLine(sorted_list[k])]]
    /\ stdout' = Append(stdout, "Drawn circuit to file.")
    /\ pc' = "done"
    /\ UNCHANGED <<inputVars, solveVars, data, n, circ, oracle_calls, draw_calls, error>>

Next ==
    \/ MainBadArgc
    \/ MainNoFile
    \/ MainNotCsv
    \/ MainCallSolve
    \/ SolveSetup
    \/ AddAcyclic
    \/ AddOutputPins
    \/ AddGateEvolution
    \/ CheckSatisfiability
    \/ MainAfterSolve
    \/ DrawRead
    \/ DrawGrid
    \/ DrawWrite
    \/ DrawCounts

Spec == Init /\ [][Next]_vars

-----------------------------------------------------------------------------
\* Properties

\* the result file holds the atoms solve_table wrote for a satisfiable system
HasResult == pc \in {"returned", "draw_circ", "draw_grid", "draw_write"} /\ ret[1]

\* the grid of draw_circ has been built
GridBuilt == pc \in {"draw_write", "draw_counts"} \/ (pc = "done" /\ draw_calls > 0)

Lines == 0..(num_gates - 1)
Rows == 0..(num_rows - 1)

\* the circuit decoded from the result file
DecodedC(i, j) == Name(Atom("c", i, j)) \in out_file.atoms
DecodedN(i) == Name(Atom("n", i, 0)) \in out_file.atoms

\* bit i, most significant first, of t written with num_input_bits bits
InputBit(i, t) == ((t \div (2 ^ (num_input_bits - 1 - i))) % 2) = 1

\* the decoded circuit evaluated forward, in index order, on row t
RECURSIVE SimV(_, _)
SimV(i, t) ==
    LET gate == Xor(DecodedN(i), \A k \in 0..(i - 1) : SimV(k, t) \/ ~DecodedC(i, k))
    IN IF i < num_input_bits THEN Xor(gate, InputBit(i, t)) ELSE gate

\* C1 (output fidelity): whenever the system is satisfiable, the circuit
\* decoded from the result file, simulated forward, gives on every one of the
\* last num_output_bits lines and every row the truth table's bit for that row
\* and output column.
C1_OutputFidelity ==
    HasResult =>
        \A i \in Lines, t \in Rows :
            i >= num_gates - num_output_bits =>
                SimV(i, t) = (truth_table[t + 1][i - (num_gates - num_output_bits) + 1] = 1)

C1_Witness ==
    /\ HasResult
    /\ num_gates = 3 /\ num_output_bits = 2 /\ num_rows = 3
    /\ DecodedC(2, 0) /\ DecodedC(1, 0) /\ DecodedN(2)
    /\ \E t \in Rows : truth_table[t + 1][1] # truth_table[1][1]
    /\ \E t \in Rows : truth_table[t + 1][2] # truth_table[1][2]

\* C2 (acyclicity): in every model the solver returns c[i][j] is false for
\* all j >= i, and every control dot written to the result file has its
\* controlling index strictly below the controlled index.
C2_Acyclicity ==
    (pc = "returned" /\ ret[1]) =>
        /\ \A i \in Lines, j \in Lines : j >= i => ~model[Atom("c", i, j)]
        /\ \A x \in out_file.atoms : IsC(x) => Second(x) < First(x)

C2_Witness ==
    /\ pc = "returned" /\ ret[1]
    /\ num_gates = 3
    /\ model[Atom("c", 2, 1)] /\ model[Atom("c", 1, 0)]
    /\ \E x \in out_file.atoms : IsC(x)

\* C3 as claimed (input fidelity): simulating the decoded circuit, every input
\* line i < num_input_bits carries bit i of the row index t.
C3_InputFidelityAsClaimed ==
    HasResult =>
        \A i \in Lines, t \in Rows : i < num_input_bits => SimV(i, t) = InputBit(i, t)

\* the gate term of line i on row t under the solver's model
ModelGate(i, t) ==
    Xor(model[Atom("n", i, 0)],
        \A k \in 0..(i - 1) : model[Atom("v", k, t)] \/ ~model[Atom("c", i, k)])

\* C3 as amended: on every input line i < num_input_bits and row t the
\* simulated value is the value the model gives v[i][t], and it is bit i of t
\* xor-ed with the gate term n[i] xor AND_{k<i}(v[k][t] or not c[i][k]): the
\* line carries the input bit exactly on the rows where its gate term is false.
C3_InputXorGate ==
    HasResult =>
        \A i \in Lines, t \in Rows :
            i < num_input_bits =>
                /\ SimV(i, t) = model[Atom("v", i, t)]
                /\ model[Atom("v", i, t)] = Xor(InputBit(i, t), ModelGate(i, t))
                /\ (model[Atom("v", i, t)] = InputBit(i, t)) = ~ModelGate(i, t)

C3_Witness ==
    /\ HasResult
    /\ num_input_bits = 2 /\ num_gates = 3
    /\ DecodedC(1, 0)
    /\ \E t \in Rows : SimV(1, t) # InputBit(1, t)
    /\ \E t \in Rows : SimV(1, t) = InputBit(1, t) /\ InputBit(1, t)

\* C4 (grid dimension): once draw_circ has found the grid dimension and goes on
\* to build the grid, the dimension is the requested num_gates; a result file
\* that gives another dimension, or none, ends in a malformed-model error.
C4_GridDimension ==
    /\ pc \in {"draw_grid", "draw_write", "draw_counts"} => n = num_gates
    /\ (pc = "crashed" /\ draw_calls > 0) => error = "MalformedModel"

\* C5 (precondition rejection): with fewer gates than output bits, or than
\* input bits, the solver is never called, no result file is written, and no
\* assertion is added for a line index wrapped onto another line.
C5_PreconditionRejection ==
    (num_rows > 0 /\ (num_gates < num_output_bits \/ num_gates < num_input_bits)) =>
        /\ oracle_calls = 0
        /\ ~out_file.opened
        /\ (\E con \in s : con.kind = "pin") => \A gate \in OutputGates : gate \in Lines

\* the model held by solve_table satisfies every assertion given to the solver
ModelSatisfies ==
    LET A == [k \in 1..NumAtoms |-> model[CHOOSE a \in AllAtoms : Pos(a) = k]]
    IN \A con \in s : Holds(con, A)

\* C6 (infeasibility path): the solver is called at most once per run; when
\* it reports unsatisfiable (solve_table holds no model of its assertions),
\* solve_table returns (False, 0, 0) as a value, not as an exception; after
\* that result the result file is never opened and draw_circ never runs;
\* draw_circ runs only after solve_table has returned a satisfiable result.
C6_InfeasibilityPath ==
    /\ oracle_calls <= 1
    /\ pc = "returned" =>
          \/ ret = <<FALSE, 0, 0>>
          \/ ret = <<TRUE, num_input_bits, num_output_bits>> /\ ModelSatisfies
    /\ ret = <<FALSE, 0, 0>> =>
          /\ pc \in {"returned", "done"}
          /\ error = "none"
          /\ ~out_file.opened
          /\ draw_calls = 0
    /\ draw_calls > 0 => (oracle_calls = 1 /\ ret # <<>> /\ ret[1])
    /\ draw_calls <= 1

C6_Witness ==
    /\ pc = "done"
    /\ ret = <<FALSE, 0, 0>>
    /\ oracle_calls = 1
    /\ num_gates = 3 /\ num_rows = 3

\* C7 (filtering): after a sat answer the result file holds exactly the names
\* of the c and n atoms the model makes true: no v atom and no false atom.
C7_Filtering ==
    (pc = "returned" /\ ret[1]) =>
        /\ out_file.opened
        /\ out_file.atoms =
              {Name(a) : a \in {x \in DOMAIN model : model[x] /\ x.f \in {"c", "n"}}}
        /\ \A a \in DOMAIN model :
              (a.f = "v" \/ ~model[a]) => Name(a) \notin out_file.atoms

C7_Witness ==
    /\ pc = "returned" /\ ret[1]
    /\ \E a \in DOMAIN model : a.f = "v" /\ model[a]
    /\ \E a \in DOMAIN model : a.f = "c" /\ model[a]
    /\ \E a \in DOMAIN model : a.f = "n" /\ model[a]
    /\ \E a \in DOMAIN model : a.f = "n" /\ ~model[a]
    /\ \E a \in DOMAIN model : a.f = "c" /\ a.j < a.i /\ ~model[a]

RECURSIVE SumCounts(_)
SumCounts(dict) == IF dict = <<>> THEN 0 ELSE Head(dict)[2] + SumCounts(Tail(dict))

\* the lines of the sorted file that name an n atom, and those that name a
\* c atom of gate i
NotLines == {x \in DOMAIN data : data[x][1] = "n"}
ControlsOf(i) == {x \in DOMAIN data : data[x][1] = "c" /\ First(data[x]) = i}

\* the count the histogram gives to the gates with k controls
CountOf(k) ==
    IF \E x \in DOMAIN gate_dict : gate_dict[x][1] = GateName(k)
    THEN gate_dict[CHOOSE x \in DOMAIN gate_dict : gate_dict[x][1] = GateName(k)][2]
    ELSE 0

\* C8 (histogram conservation): the counts of the histogram sum to (n - 1)
\* plus the number of true n atoms; each column i >= 1 counts once, under the
\* number of its control dots, each true n atom counts once as a plain NOT,
\* and the diagonal markers count nothing.
C8_HistogramConservation ==
    (pc = "done" /\ draw_calls > 0) =>
        /\ SumCounts(gate_dict) = (n - 1) + Cardinality(NotLines)
        /\ \A k \in 0..n :
              CountOf(k) = Cardinality({i \in 1..(n - 1) : Cardinality(ControlsOf(i)) = k})
                           + (IF k = 0 THEN Cardinality(NotLines) ELSE 0)
        /\ \A x, y \in DOMAIN gate_dict : gate_dict[x][1] = gate_dict[y][1] => x = y
        /\ Len(out_file.counts) = Len(gate_dict)

C8_Witness ==
    /\ pc = "done" /\ draw_calls > 0
    /\ n = 3
    /\ Cardinality(NotLines) = 2
    /\ CountOf(2) = 1 /\ CountOf(0) = 3

\* the label written in front of line i of the drawing
WrittenLabel(i) == out_file.grid[i + 1][1]

\* C9 (label precedence): every line i >= n - num_out is labelled as an output,
\* also when i < num_in; a line is labelled input only if i < num_in and
\* i < n - num_out, and ancilla only if neither holds.
C9_LabelPrecedence ==
    (pc \in {"draw_counts", "done"} /\ draw_calls > 0) =>
        \A i \in 0..(n - 1) :
            /\ i >= n - ret[3] => WrittenLabel(i) = "|o> "
            /\ WrittenLabel(i) = "|i> " <=> (i < ret[2] /\ i < n - ret[3])
            /\ WrittenLabel(i) = "|a> " <=> (i >= ret[2] /\ i < n - ret[3])

\* some cell above (r, k) in column k holds a control dot
DotAbove(r, k) == \E q \in 0..(r - 1) : circ[q][k] = CONTROL_DOT

\* C10 as claimed (pipe marking): every cell of the grid that holds neither a
\* NOT nor a control dot is a pipe if and only if a control dot lies above it
\* in its column, on the rows below the diagonal as well.
C10_PipeMarkingAsClaimed ==
    GridBuilt =>
        \A r \in 0..(n - 1), k \in 0..(n - 1) :
            circ[r][k] \notin {NOT_GATE, CONTROL_DOT} =>
                (circ[r][k] = PIPE <=> DotAbove(r, k))

\* C10 as amended: a cell strictly above the diagonal of its column (r < k)
\* that holds no control dot is a pipe if and only if a control dot lies above
\* it in its column; no cell on or below the diagonal is a pipe.
C10_PipeMarkingAboveDiagonal ==
    GridBuilt =>
        \A r \in 0..(n - 1), k \in 0..(n - 1) :
            /\ (r < k /\ circ[r][k] # CONTROL_DOT) =>
                  (circ[r][k] = PIPE <=> DotAbove(r, k))
            /\ r >= k => circ[r][k] # PIPE

C10_Witness ==
    /\ GridBuilt
    /\ n = 3
    /\ circ[0][2] = CONTROL_DOT /\ circ[1][2] = PIPE
    /\ circ[0][1] = CONTROL_DOT /\ circ[2][1] = "-"

====
